---- MODULE Spec2Model ----
(***************************************************************************)
(* aranGO client binding: the paginated Cursor (cursor.go) and the         *)
(* Document existence / staleness checks (document.go).                    *)
(*                                                                         *)
(* The cursor is a record of the fields of struct Cursor that the methods  *)
(* read or write.  The server is the sequence of batches it still holds    *)
(* for the open query (stream) and whether it still holds the cursor       *)
(* (srvHas).  Every method is one action; the response of the one request  *)
(* a method may issue is an input of the action.                           *)
(***************************************************************************)
EXTENDS Integers, Sequences, FiniteSets, TLC

VARIABLES cursor, stream, srvHas, doc, last, delivered, all, ncalls, clean

vars == <<cursor, stream, srvHas, doc, last, delivered, all, ncalls, clean>>

-----------------------------------------------------------------------------
(* Bounds of the model *)

MaxBatches == 2

MaxBatchLen == 2

MaxCalls == 3

MaxIdLen == 3

(* HTTP statuses the code tests for *)

Status200 == 200

Status202 == 202

Status404 == 404

Status412 == 412

(* a status none of the switches names *)
OtherStatuses == {500}

-----------------------------------------------------------------------------
(* Values *)

Nil == [nil |-> TRUE]

NoValue == [k |-> "none", n |-> 0]

ZeroValue == [k |-> "zero", n |-> 0]

NoErr == [kind |-> "nil", code |-> 0]

ErrTransport == [kind |-> "transport", code |-> 0]

ErrContainer == [kind |-> "Container must be Slice of array kind", code |-> 0]

ErrDecode == [kind |-> "json: cannot unmarshal", code |-> 0]

ErrStatus(s) == [kind |-> "Cursor batch request returned status code of", code |-> s]

ErrInvalidId == [kind |-> "Invalid id", code |-> 0]

ErrEmptyId == [kind |-> "Invalid empty id", code |-> 0]

ErrInvalidDb == [kind |-> "Invalid db", code |-> 0]

ErrMustExist == [kind |-> "Document must exist or have valid _rev and _id", code |-> 0]

CursorId == "c1"

-----------------------------------------------------------------------------
(* encoding/json, on the rows a batch holds: a row is a JSON number or a   *)
(* JSON string; the encoded form is a sequence of tokens.                  *)

Tok(t, n) == [t |-> t, n |-> n]

Marshal(v) ==
    IF v.k = "str" THEN <<Tok("q", 0), Tok("c", v.n), Tok("q", 0)>>
    ELSE <<Tok("d", v.n)>>

RECURSIVE MarshalElems(_)
MarshalElems(rs) ==
    IF rs = <<>> THEN <<>>
    ELSE IF Len(rs) = 1 THEN Marshal(rs[1])
    ELSE Marshal(rs[1]) \o <<Tok(",", 0)>> \o MarshalElems(Tail(rs))

MarshalSlice(rs) == <<Tok("[", 0)>> \o MarshalElems(rs) \o <<Tok("]", 0)>>

(* Unmarshal of one encoded value into a target of element type ty *)
UnmarshalValue(b, ty) ==
    IF b[1].t = "q"
    THEN IF ty \in {"any", "string"}
         THEN [err |-> NoErr, v |-> [k |-> "str", n |-> b[2].n]]
         ELSE [err |-> ErrDecode, v |-> NoValue]
    ELSE IF ty \in {"any", "int"}
         THEN [err |-> NoErr, v |-> [k |-> "num", n |-> b[1].n]]
         ELSE [err |-> ErrDecode, v |-> NoValue]

(* the encoded elements between the brackets, split at the commas *)
RECURSIVE SplitElems(_, _, _)
SplitElems(b, i, acc) ==
    IF i > Len(b) THEN <<>>
    ELSE IF b[i].t = "]" THEN (IF acc = <<>> THEN <<>> ELSE <<acc>>)
    ELSE IF b[i].t = "," THEN <<acc>> \o SplitElems(b, i + 1, <<>>)
    ELSE IF b[i].t = "[" THEN SplitElems(b, i + 1, <<>>)
    ELSE SplitElems(b, i + 1, Append(acc, b[i]))


(* Target kinds of FetchBatch: what reflect.ValueOf(r).Elem().Kind() gives *)
ArrayLen == 2

BatchTargets ==
    { [kind |-> "Slice", elem |-> "any"],
      [kind |-> "Slice", elem |-> "int"],
      [kind |-> "Array", elem |-> "any"],
      [kind |-> "Struct", elem |-> "any"],
      [kind |-> "Map", elem |-> "any"] }

(* Element types of the targets of the row-at-a-time readers *)
RowTargets == {"any", "int", "string"}

(* Unmarshal of an encoded array into a slice or a fixed-length array:    *)
(* an element of the wrong type is left zero and the first such error is  *)
(* returned; an array takes the elements that fit and zeroes the rest; a  *)
(* target of any other kind cannot take an array.                         *)
UnmarshalSeq(b, t) ==
    IF t.kind \notin {"Slice", "Array"} THEN [err |-> ErrDecode, v |-> <<>>]
    ELSE
    LET es == SplitElems(b, 1, <<>>)
        n == IF t.kind = "Array" THEN ArrayLen ELSE Len(es)
        d == [i \in 1..n |->
                IF i <= Len(es) THEN UnmarshalValue(es[i], t.elem)
                ELSE [err |-> NoErr, v |-> ZeroValue]]
        bad == {i \in 1..n : d[i].err # NoErr}
    IN [err |-> IF bad = {} THEN NoErr ELSE ErrDecode,
        v |-> [i \in 1..n |-> IF i \in bad THEN ZeroValue ELSE d[i].v]]

-----------------------------------------------------------------------------
(* The transport collaborator (Database.send / Database.get) and the open  *)
(* query response that populates a cursor.                                 *)

TransportError == [err |-> TRUE, status |-> 0]

NoResponse == [err |-> FALSE, status |-> 0]

Response(s) == [err |-> FALSE, status |-> s]

(* a cursor response body: {id, result, hasMore, count} *)
Body(id, rows, more, count) ==
    [id |-> id, result |-> rows, hasMore |-> more, count |-> count]

(* what decoding a response into the cursor does to it: a 200 body        *)
(* replaces id, batch, hasMore and the cached max; any other answered     *)
(* status leaves the batch and records the inline error state.            *)
(* the batch replaced with max left at the previous batch's length *)
sendStaleMax(c, resp, body) ==
    IF resp.err THEN c
    ELSE IF resp.status = Status200
    THEN [c EXCEPT !.Id = body.id, !.Result = body.result,
                   !.More = body.hasMore, !.Amount = body.count,
                   !.FullCount = body.count,
                   !.Err = FALSE, !.Code = resp.status]
    ELSE IF resp.status = Status202
    THEN [c EXCEPT !.Err = FALSE, !.Code = resp.status]
    ELSE [c EXCEPT !.Err = TRUE, !.Code = resp.status]

send(c, resp, body) ==
    IF resp.err THEN c
    ELSE IF resp.status = Status200
    THEN [c EXCEPT !.Id = body.id, !.Result = body.result,
                   !.More = body.hasMore, !.Amount = body.count,
                   !.FullCount = body.count,
                   !.max = Len(body.result),
                   !.Err = FALSE, !.Code = resp.status]
    ELSE IF resp.status = Status202
    THEN [c EXCEPT !.Err = FALSE, !.Code = resp.status]
    ELSE [c EXCEPT !.Err = TRUE, !.Code = resp.status]

-----------------------------------------------------------------------------
(* Cursor *)

(* NewCursor(db) with a database handle: every field at its zero value *)
NewCursor ==
    [Id |-> "", Index |-> 0, Result |-> <<>>, More |-> FALSE, Amount |-> 0,
     FullCount |-> 0, Err |-> FALSE, Code |-> 0, max |-> 0]

(* the outcome of one method call *)
(* c: the receiver after the call; ret, err: what is returned; out: what   *)
(* the caller's target holds; reqs: the requests issued; dec: whether a     *)
(* decode into the target was tried and how it ended; fault: a run-time     *)
(* panic that ended the call                                                *)
Outcome(c, ret, err, out, reqs) ==
    [c |-> c, ret |-> ret, err |-> err, out |-> out, reqs |-> reqs,
     dec |-> "none", fault |-> "none"]

Decoded(c, ret, err, out, reqs) ==
    [c |-> c, ret |-> ret, err |-> err, out |-> out, reqs |-> reqs,
     dec |-> "ok", fault |-> "none"]

DecodeFailed(c, ret, err, out, reqs) ==
    [c |-> c, ret |-> ret, err |-> err, out |-> out, reqs |-> reqs,
     dec |-> "fail", fault |-> "none"]

Panic(c, reqs) ==
    [c |-> c, ret |-> "none", err |-> NoErr, out |-> NoValue, reqs |-> reqs,
     dec |-> "none", fault |-> "index out of range"]

(* c.Result[c.Index] is in range *)
InRange(c) == c.Index >= 0 /\ c.Index < Len(c.Result)

(* c.Result[c.Index], Go's 0-based index *)
Row(c) == c.Result[c.Index + 1]

HasMore(c) == c.More

Count(c) == c.Amount

FullCount(c) == c.FullCount

Error(c) == c.Err

ErrCode(c) == c.Code

(* the switch with 404 read as closed *)
DeleteStatusGone(s) ==
    IF s = Status202 THEN "true"
    ELSE IF s = Status404 THEN "true"
    ELSE "false"

(* Delete: switch on the status of the DELETE response *)
DeleteStatus(s) ==
    IF s = Status202 THEN "true"
    ELSE IF s = Status404 THEN "false"
    ELSE "false"

(* every status but 202 reported as an error *)
DeleteStrict(c, resp, body) ==
    IF c.Id = "" THEN Outcome(c, "false", NoErr, NoValue, 0)
    ELSE LET c1 == send(c, resp, body)
         IN IF resp.err THEN Outcome(c1, "false", ErrTransport, NoValue, 1)
            ELSE IF resp.status = Status202
            THEN Outcome(c1, "true", NoErr, NoValue, 1)
            ELSE Outcome(c1, "false", ErrStatus(resp.status), NoValue, 1)

Delete(c, resp, body) ==
    IF c.Id = "" THEN Outcome(c, "false", NoErr, NoValue, 0)
    ELSE LET c1 == send(c, resp, body)
         IN IF resp.err THEN Outcome(c1, "false", ErrTransport, NoValue, 1)
            ELSE Outcome(c1, DeleteStatus(resp.status), NoErr, NoValue, 1)


(* the kind test letting a map through *)
IsSequenceKindOrMap(kind) == ~(kind # "Slice" /\ kind # "Array" /\ kind # "Map")

(* FetchBatch: the kind test on the target *)
IsSequenceKind(kind) == ~(kind # "Slice" /\ kind # "Array")

(* the response of the next-batch request decoded into the target as well *)
FetchBatchResultDrain(c1, resp, out) ==
    IF resp.status = Status200 THEN Decoded(c1, "none", NoErr, c1.Result, 1)
    ELSE IF resp.err THEN Decoded(c1, "none", ErrTransport, out, 1)
    ELSE Decoded(c1, "none", NoErr, out, 1)

(* FetchBatch: the outcome of the next-batch request, c1 the cursor after it *)
FetchBatchResult(c1, resp, out) ==
    IF resp.status = Status200 THEN Decoded(c1, "none", NoErr, out, 1)
    ELSE IF resp.err THEN Decoded(c1, "none", ErrTransport, out, 1)
    ELSE Decoded(c1, "none", NoErr, out, 1)

FetchBatch(c, t, resp, body) ==
    IF ~IsSequenceKind(t.kind)
    THEN Outcome(c, "none", ErrContainer, NoValue, 0)
    ELSE LET u == UnmarshalSeq(MarshalSlice(c.Result), t)
         IN IF u.err # NoErr THEN DecodeFailed(c, "none", u.err, u.v, 0)
            ELSE IF HasMore(c)
            THEN FetchBatchResult(send(c, resp, body), resp, u.v)
            ELSE Decoded(c, "none", NoErr, u.v, 0)

(* the index left past the first row of the new batch *)
ResetIndexToOne(c) == [c EXCEPT !.Index = 1]

(* c.Index = 0 after a next-batch fetch answered 200 *)
ResetIndex(c) == [c EXCEPT !.Index = 0]

(* c.Index++ *)
Advance(c) == [c EXCEPT !.Index = c.Index + 1]

(* FetchOne: the exhaustion test against the cached max *)
FetchOneExhausted(c) == c.Index > c.max

(* FetchOne: decode c.Result[c.Index]; the index moves whether or not the  *)
(* decode succeeds                                                         *)
FetchOneDecode(c, ty) ==
    IF ~InRange(c) THEN Panic(c, 0)
    ELSE LET u == UnmarshalValue(Marshal(Row(c)), ty)
         IN IF u.err # NoErr
            THEN DecodeFailed(Advance(c), "false", NoErr, NoValue, 0)
            ELSE Decoded(Advance(c), "true", NoErr, u.v, 0)

(* the first row of a fetched batch decoded on the fetching call *)
FetchOneEager(c, ty, resp, body) ==
    IF FetchOneExhausted(c)
    THEN IF c.More
         THEN LET c1 == send(c, resp, body)
              IN IF resp.err THEN Outcome(c1, "false", NoErr, NoValue, 1)
                 ELSE IF resp.status = Status200
                 THEN [FetchOneDecode(ResetIndex(c1), ty) EXCEPT !.reqs = 1]
                 ELSE Outcome(c1, "false", NoErr, NoValue, 1)
         ELSE Outcome(c, "false", NoErr, NoValue, 0)
    ELSE FetchOneDecode(c, ty)

FetchOne(c, ty, resp, body) ==
    IF FetchOneExhausted(c)
    THEN IF c.More
         THEN LET c1 == send(c, resp, body)
              IN IF resp.err THEN Outcome(c1, "false", NoErr, NoValue, 1)
                 ELSE IF resp.status = Status200
                 THEN Outcome(ResetIndex(c1), "true", NoErr, NoValue, 1)
                 ELSE Outcome(c1, "false", NoErr, NoValue, 1)
         ELSE Outcome(c, "false", NoErr, NoValue, 0)
    ELSE FetchOneDecode(c, ty)

(* the exhaustion test with > in place of >= *)
FetchNextExhaustedGt(c) == c.Index > Len(c.Result)

(* FetchNext: the exhaustion test against the batch length *)
FetchNextExhausted(c) == c.Index >= Len(c.Result)

(* the index moved past a row that failed to decode *)
FetchNextDecodeSkip(c, ty, reqs) ==
    IF ~InRange(c) THEN Panic(c, reqs)
    ELSE LET u == UnmarshalValue(Marshal(Row(c)), ty)
         IN IF u.err # NoErr
            THEN DecodeFailed(Advance(c), "false", u.err, NoValue, reqs)
            ELSE Decoded(Advance(c), "true", NoErr, u.v, reqs)

(* FetchNext: decode c.Result[c.Index]; the index moves only on success *)
FetchNextDecode(c, ty, reqs) ==
    IF ~InRange(c) THEN Panic(c, reqs)
    ELSE LET u == UnmarshalValue(Marshal(Row(c)), ty)
         IN IF u.err # NoErr
            THEN DecodeFailed(c, "false", u.err, NoValue, reqs)
            ELSE Decoded(Advance(c), "true", NoErr, u.v, reqs)

FetchNext(c, ty, resp, body) ==
    IF FetchNextExhausted(c)
    THEN IF c.More
         THEN LET c1 == send(c, resp, body)
              IN IF resp.err THEN Outcome(c1, "false", ErrTransport, NoValue, 1)
                 ELSE IF resp.status = Status200
                 THEN FetchNextDecode(ResetIndex(c1), ty, 1)
                 ELSE Outcome(c1, "false", ErrStatus(resp.status), NoValue, 1)
         ELSE Outcome(c, "false", NoErr, NoValue, 0)
    ELSE FetchNextDecode(c, ty, 0)

(* Next: move the index by one toward max *)
Next(c) ==
    IF c.Index = c.max THEN Outcome(c, "false", NoErr, NoValue, 0)
    ELSE IF Advance(c).Index = c.max
         THEN Outcome(Advance(c), "true", NoErr, NoValue, 0)
         ELSE Outcome(Advance(c), "false", NoErr, NoValue, 0)


-----------------------------------------------------------------------------
(* Document.  A string is a sequence of characters.                        *)

(* strings.Split(s, "/"), from position i with the segment acc begun *)
RECURSIVE SplitFrom(_, _, _)
SplitFrom(s, i, acc) ==
    IF i > Len(s) THEN <<acc>>
    ELSE IF s[i] = "/" THEN <<acc>> \o SplitFrom(s, i + 1, <<>>)
    ELSE SplitFrom(s, i + 1, Append(acc, s[i]))

Split(s) == SplitFrom(s, 1, <<>>)

(* var d Document *)
Document == [Id |-> <<>>, Rev |-> <<>>, Key |-> <<>>]

NewDocument(id) ==
    LET sid == Split(id)
    IN IF Len(sid) # 2 THEN Outcome(Nil, "none", ErrInvalidId, NoValue, 0)
       ELSE IF id = <<>> THEN Outcome(Nil, "none", ErrEmptyId, NoValue, 0)
       ELSE Outcome([Document EXCEPT !.Id = id, !.Key = sid[2]],
                    "none", NoErr, NoValue, 0)

(* 404 no longer counted as updated *)
UpdatedStatusOnly412(s) ==
    IF s = Status412 THEN "true"
    ELSE "false"

(* Updated: switch on the status of the GET response *)
UpdatedStatus(s) ==
    IF s = Status404 THEN "true"
    ELSE IF s = Status412 THEN "true"
    ELSE "false"

(* the precondition with && in place of || *)
UpdatedBothEmpty(d, db, resp) ==
    IF db = "nil" THEN Outcome(d, "false", ErrInvalidDb, NoValue, 0)
    ELSE IF d.Id = <<>> /\ d.Rev = <<>>
    THEN Outcome(d, "false", ErrMustExist, NoValue, 0)
    ELSE IF resp.err THEN Outcome(d, "false", ErrTransport, NoValue, 1)
    ELSE Outcome(d, UpdatedStatus(resp.status), NoErr, NoValue, 1)

Updated(d, db, resp) ==
    IF db = "nil" THEN Outcome(d, "false", ErrInvalidDb, NoValue, 0)
    ELSE IF d.Id = <<>> \/ d.Rev = <<>>
    THEN Outcome(d, "false", ErrMustExist, NoValue, 0)
    ELSE IF resp.err THEN Outcome(d, "false", ErrTransport, NoValue, 1)
    ELSE Outcome(d, UpdatedStatus(resp.status), NoErr, NoValue, 1)

(* the request sent again after a transport error *)
ExistRetry(d, db, resp) ==
    IF db = "nil" THEN Outcome(d, "false", ErrInvalidDb, NoValue, 0)
    ELSE IF d.Id = <<>> THEN Outcome(d, "false", ErrMustExist, NoValue, 0)
    ELSE IF resp.err THEN Outcome(d, "false", ErrTransport, NoValue, 2)
    ELSE Outcome(d, IF resp.status = Status404 THEN "false" ELSE "true",
                 NoErr, NoValue, 1)

(* only a 200 counted as existing *)
ExistStatusStrict(s) == IF s = Status200 THEN "true" ELSE "false"

(* Exist: switch on the status of the GET response *)
ExistStatus(s) == IF s = Status404 THEN "false" ELSE "true"

Exist(d, db, resp) ==
    IF db = "nil" THEN Outcome(d, "false", ErrInvalidDb, NoValue, 0)
    ELSE IF d.Id = <<>> THEN Outcome(d, "false", ErrMustExist, NoValue, 0)
    ELSE IF resp.err THEN Outcome(d, "false", ErrTransport, NoValue, 1)
    ELSE Outcome(d, ExistStatus(resp.status), NoErr, NoValue, 1)

SetKey(d, key) == Outcome([d EXCEPT !.Key = key], "none", NoErr, NoValue, 0)

SetRev(d, rev) == Outcome([d EXCEPT !.Rev = rev], "none", NoErr, NoValue, 0)


-----------------------------------------------------------------------------
(* Inputs *)

Chars == {"a", "b", "/"}

Ids == UNION {[1..k -> Chars] : k \in 0..MaxIdLen}

Revs == {<<>>, <<"1">>}

Keys == {<<>>, <<"k">>}

Dbs == {"nil", "db"}

(* the batch lengths of a server-side result stream *)
LenSeqs == UNION {[1..k -> 0..MaxBatchLen] : k \in 1..MaxBatches}

(* one batch more, each batch one row shorter *)
LongLenSeqs == [1..(MaxBatches + 1) -> 0..(MaxBatchLen - 1)]

RECURSIVE Sum(_)
Sum(lens) == IF lens = <<>> THEN 0 ELSE Head(lens) + Sum(Tail(lens))

(* row i of the stream: a JSON number, but for one row that is a string *)
RowAt(i, strRow) == [k |-> IF i = strRow THEN "str" ELSE "num", n |-> i]

RECURSIVE MkBatches(_, _, _)
MkBatches(lens, off, strRow) ==
    IF lens = <<>> THEN <<>>
    ELSE <<[i \in 1..Head(lens) |-> RowAt(off + i, strRow)]>>
         \o MkBatches(Tail(lens), off + Head(lens), strRow)

RECURSIVE Flatten(_)
Flatten(bs) == IF bs = <<>> THEN <<>> ELSE Head(bs) \o Flatten(Tail(bs))

(* the answers the server can give to a request *)
PutResponses ==
    {TransportError} \cup {Response(st) : st \in {Status404} \cup OtherStatuses}
    \cup (IF srvHas /\ stream # <<>> THEN {Response(Status200)} ELSE {})

DeleteResponses ==
    {TransportError} \cup {Response(st) : st \in {Status404} \cup OtherStatuses}
    \cup (IF srvHas THEN {Response(Status202)} ELSE {})

GetResponses ==
    {TransportError}
    \cup {Response(st) : st \in {Status200, Status404, Status412} \cup OtherStatuses}

(* the body of the next batch the server would send *)
NextBody ==
    IF stream = <<>> THEN Body(cursor.Id, <<>>, FALSE, cursor.Amount)
    ELSE Body(cursor.Id, Head(stream), Len(stream) > 1, cursor.Amount)

-----------------------------------------------------------------------------
(* State machine *)

NoCall ==
    [op |-> "none", t |-> "none", ret |-> "none", err |-> NoErr,
     out |-> NoValue, reqs |-> 0, dec |-> "none", fault |-> "none",
     resp |-> NoResponse, pre |-> Nil]

Record(op, t, R, resp, pre) ==
    [op |-> op, t |-> t, ret |-> R.ret, err |-> R.err, out |-> R.out,
     reqs |-> R.reqs, dec |-> R.dec, fault |-> R.fault,
     resp |-> IF R.reqs > 0 THEN resp ELSE NoResponse, pre |-> pre]

(* a cursor opened by a query whose first response carried the first batch *)
(* of a stream with the batch lengths lens                                 *)
Opened(lens) ==
    \E strRow \in 0..Sum(lens), id \in {"", CursorId} :
        /\ Len(lens) > 1 => id = CursorId
        /\ all = MkBatches(lens, 0, strRow)
        /\ cursor = send(NewCursor, Response(Status200),
                         Body(id, Head(all), Len(all) > 1, Sum(lens)))
        /\ stream = Tail(all)
        /\ delivered = <<>>
        /\ srvHas = (id # "")
        /\ doc = Document
        /\ last = NoCall
        /\ ncalls = 0
        /\ clean = TRUE

InitCursor == \E lens \in LenSeqs : Opened(lens)

(* a cursor over a longer stream of shorter batches *)
InitLongCursor == \E lens \in LongLenSeqs : Opened(lens)

(* no cursor is held: NewCursor(nil) returned nil; a zero Document *)
InitDocument ==
    /\ cursor = Nil
    /\ stream = <<>>
    /\ srvHas = FALSE
    /\ doc = Document
    /\ last = NoCall
    /\ delivered = <<>>
    /\ all = <<>>
    /\ ncalls = 0
    /\ clean = TRUE

Init == InitCursor \/ InitDocument

CanCall == ncalls < MaxCalls /\ last.fault = "none"

(* a call of a Cursor method with outcome R, resp the answer to its request *)
CursorCall(op, t, R, resp) ==
    /\ cursor' = R.c
    /\ last' = Record(op, t, R, resp, cursor)
    /\ ncalls' = ncalls + 1
    /\ stream' = IF R.reqs > 0 /\ resp = Response(Status200)
                 THEN Tail(stream) ELSE stream
    /\ srvHas' = IF R.reqs > 0 /\ resp = Response(Status202)
                 THEN FALSE ELSE srvHas
    /\ delivered' = IF \/ op \in {"FetchNext", "FetchOne"} /\ R.dec = "ok"
                       \/ op = "FetchBatch" /\ R.err = NoErr
                    THEN Append(delivered, R.out) ELSE delivered
    /\ clean' = (clean /\ R.dec # "fail"
                 /\ (R.reqs > 0 => resp = Response(Status200)))
    /\ UNCHANGED <<doc, all>>

DoDelete ==
    /\ CanCall /\ cursor # Nil
    /\ \E resp \in DeleteResponses :
          CursorCall("Delete", "none", Delete(cursor, resp, NextBody), resp)

DoFetchBatch ==
    /\ CanCall /\ cursor # Nil
    /\ \E t \in BatchTargets, resp \in PutResponses :
          CursorCall("FetchBatch", t, FetchBatch(cursor, t, resp, NextBody), resp)

DoFetchOne ==
    /\ CanCall /\ cursor # Nil
    /\ \E ty \in RowTargets, resp \in PutResponses :
          CursorCall("FetchOne", ty, FetchOne(cursor, ty, resp, NextBody), resp)

DoFetchNext ==
    /\ CanCall /\ cursor # Nil
    /\ \E ty \in RowTargets, resp \in PutResponses :
          CursorCall("FetchNext", ty, FetchNext(cursor, ty, resp, NextBody), resp)

DoNext ==
    /\ CanCall /\ cursor # Nil
    /\ CursorCall("Next", "none", Next(cursor), NoResponse)


(* the accessors: pure reads of the last-known response state *)
Accessors == {"Count", "FullCount", "HasMore", "Error", "ErrCode"}

IntValue(n) == [k |-> "int", n |-> n]

BoolRet(b) == IF b THEN "true" ELSE "false"

Accessor(a, c) ==
    CASE a = "Count" -> Outcome(c, "none", NoErr, IntValue(Count(c)), 0)
      [] a = "FullCount" -> Outcome(c, "none", NoErr, IntValue(FullCount(c)), 0)
      [] a = "HasMore" -> Outcome(c, BoolRet(HasMore(c)), NoErr, NoValue, 0)
      [] a = "Error" -> Outcome(c, BoolRet(Error(c)), NoErr, NoValue, 0)
      [] a = "ErrCode" -> Outcome(c, "none", NoErr, IntValue(ErrCode(c)), 0)

DoAccessor ==
    /\ CanCall /\ cursor # Nil
    /\ \E a \in Accessors : CursorCall(a, "none", Accessor(a, cursor), NoResponse)

(* a call concerning the Document, with outcome R *)
DocumentCall(op, t, R, resp) ==
    /\ doc' = R.c
    /\ last' = Record(op, t, R, resp, doc)
    /\ ncalls' = ncalls + 1
    /\ UNCHANGED <<cursor, stream, srvHas, delivered, all, clean>>

(* the Document checks are exercised by a caller that holds no cursor: the  *)
(* two components share no state, so their interleavings are not explored  *)
DocumentTurn == CanCall /\ cursor = Nil

DoNewDocument ==
    /\ DocumentTurn
    /\ \E id \in Ids : DocumentCall("NewDocument", id, NewDocument(id), NoResponse)

DoZeroDocument ==
    /\ DocumentTurn
    /\ DocumentCall("Document", <<>>, Outcome(Document, "none", NoErr, NoValue, 0),
                    NoResponse)

DoSetKey ==
    /\ DocumentTurn /\ doc # Nil
    /\ \E key \in Keys : DocumentCall("SetKey", key, SetKey(doc, key), NoResponse)

DoSetRev ==
    /\ DocumentTurn /\ doc # Nil
    /\ \E rev \in Revs : DocumentCall("SetRev", rev, SetRev(doc, rev), NoResponse)

DoUpdated ==
    /\ DocumentTurn /\ doc # Nil
    /\ \E db \in Dbs, resp \in GetResponses :
          DocumentCall("Updated", db, Updated(doc, db, resp), resp)

DoExist ==
    /\ DocumentTurn /\ doc # Nil
    /\ \E db \in Dbs, resp \in GetResponses :
          DocumentCall("Exist", db, Exist(doc, db, resp), resp)

Step ==
    \/ DoDelete
    \/ DoFetchBatch
    \/ DoFetchOne
    \/ DoFetchNext
    \/ DoNext
    \/ DoAccessor
    \/ DoNewDocument
    \/ DoZeroDocument
    \/ DoSetKey
    \/ DoSetRev
    \/ DoUpdated
    \/ DoExist

Spec == Init /\ [][Step]_vars

(* a caller that reads the cursor with FetchNext alone *)
SpecFetchNext == InitCursor /\ [][DoFetchNext]_vars

(* a caller that reads the cursor with FetchOne alone *)
SpecFetchOne == InitCursor /\ [][DoFetchOne]_vars

(* a caller that reads the cursor with FetchBatch alone *)
SpecFetchBatch == InitCursor /\ [][DoFetchBatch]_vars

(* a caller that mixes the three readers, on a longer stream *)
ReadersStep ==
    \/ DoFetchNext
    \/ DoFetchBatch
    \/ DoFetchOne

SpecReaders == InitLongCursor /\ [][ReadersStep]_vars

(* a caller that never uses the legacy accessor FetchOne *)
NoFetchOneStep ==
    \/ DoFetchNext
    \/ DoFetchBatch
    \/ DoNext
    \/ DoDelete

SpecNoFetchOne == InitCursor /\ [][NoFetchOneStep]_vars

(* a caller that only closes the cursor, again and again *)
SpecDelete == InitCursor /\ [][DoDelete]_vars

(* a caller of the Document functions *)
DocumentStep ==
    \/ DoNewDocument
    \/ DoZeroDocument
    \/ DoSetKey
    \/ DoSetRev
    \/ DoUpdated
    \/ DoExist

SpecDocument == InitDocument /\ [][DocumentStep]_vars


-----------------------------------------------------------------------------
(* Properties *)

(* the batch the cursor was populated with, and whether more was announced *)
FirstBatch == all[1]

FirstHasMore == Len(all) > 1

SingleBatch == all # <<>> /\ ~FirstHasMore

(* C1: for a cursor populated with n rows, index 0 and hasMore = false,    *)
(* read by FetchNext alone into targets that can hold the rows: call j,    *)
(* j <= n, returns (true, nil) and decodes row r(j-1); every later call    *)
(* returns (false, nil); no call issues a server request.                  *)
C1_FetchNextSingleBatch ==
    (SingleBatch /\ clean /\ last.op = "FetchNext") =>
        /\ last.reqs = 0
        /\ last.fault = "none"
        /\ ncalls <= Len(FirstBatch) =>
              /\ last.ret = "true" /\ last.err = NoErr
              /\ last.out = FirstBatch[ncalls]
              /\ delivered = SubSeq(FirstBatch, 1, ncalls)
        /\ ncalls > Len(FirstBatch) =>
              /\ last.ret = "false" /\ last.err = NoErr
              /\ last.dec = "none"
              /\ delivered = FirstBatch

(* two rows were decoded in order and the third call reported exhaustion *)
C1_Witness ==
    /\ SingleBatch /\ clean /\ last.op = "FetchNext"
    /\ Len(FirstBatch) = 2 /\ ncalls = 3
    /\ last.ret = "false" /\ last.err = NoErr
    /\ delivered = FirstBatch

AllBatchesNonEmpty == all # <<>> /\ \A i \in 1..Len(all) : all[i] # <<>>

(* C2: when every batch of the stream is non-empty and every next-batch    *)
(* request is answered 200, FetchNext calls (into targets that can hold    *)
(* the rows) deliver every row of B1..Bk exactly once and in server order, *)
(* each with (true, nil), and then return (false, nil).                    *)
C2_ExactlyOnceAcrossBatches ==
    (AllBatchesNonEmpty /\ clean) =>
        LET rows == Flatten(all)
        IN /\ Len(delivered) <= Len(rows)
           /\ delivered = SubSeq(rows, 1, Len(delivered))
           /\ last.op = "FetchNext" =>
                 /\ last.fault = "none"
                 /\ ncalls <= Len(rows) =>
                       /\ last.ret = "true" /\ last.err = NoErr
                       /\ Len(delivered) = ncalls
                       /\ last.out = rows[ncalls]
                 /\ ncalls > Len(rows) =>
                       /\ last.ret = "false" /\ last.err = NoErr
                       /\ last.dec = "none"
                       /\ delivered = rows

(* both batches of a two-batch stream were delivered, then exhaustion *)
C2_Witness ==
    /\ AllBatchesNonEmpty /\ clean /\ Len(all) = 2
    /\ last.op = "FetchNext" /\ last.ret = "false" /\ last.err = NoErr
    /\ delivered = Flatten(all)

(* C3: for a cursor populated with n rows, index 0 and hasMore = false,    *)
(* read by FetchOne alone into targets that can hold the rows: the first   *)
(* n+1 calls return true and only the calls after them return false.       *)
C3_FetchOneOneExtraTrue ==
    (SingleBatch /\ clean /\ last.op = "FetchOne") =>
        /\ ncalls <= Len(FirstBatch) + 1 => last.ret = "true"
        /\ ncalls > Len(FirstBatch) + 1 => last.ret = "false"


(* both calls on a one-row cursor: the second reads past the batch *)
C3_Witness ==
    /\ SingleBatch /\ clean /\ last.op = "FetchOne"
    /\ Len(FirstBatch) = 1 /\ ncalls = 2
    /\ last.fault = "index out of range"

(* C4: Delete on a cursor with empty id returns (false, nil) and issues no *)
(* request; with a non-empty id it issues one DELETE request and returns   *)
(* (true, nil) exactly when the status is 202, (false, nil) for 404 and    *)
(* every other status, and (false, err) on a transport error.              *)
C4_Delete ==
    last.op = "Delete" =>
        /\ last.fault = "none"
        /\ last.pre.Id = "" =>
              last.ret = "false" /\ last.err = NoErr /\ last.reqs = 0
        /\ last.pre.Id # "" =>
              /\ last.reqs = 1
              /\ last.resp.err => last.ret = "false" /\ last.err = ErrTransport
              /\ ~last.resp.err =>
                    /\ last.err = NoErr
                    /\ last.ret = "true" <=> last.resp.status = Status202
                    /\ last.resp.status # Status202 => last.ret = "false"

(* a Delete answered 404 that returned (false, nil) *)
C4_Witness ==
    /\ last.op = "Delete" /\ last.pre.Id # ""
    /\ last.resp = Response(Status404)
    /\ last.ret = "false" /\ last.err = NoErr

Holds(kind, rows) ==
    IF kind = "Array"
    THEN [i \in 1..ArrayLen |-> IF i <= Len(rows) THEN rows[i] ELSE ZeroValue]
    ELSE rows

(* the position in the stream of the batch the cursor holds *)
HeldBatch == Len(all) - Len(stream)

(* C6: every successful FetchBatch call decodes into the target the batch  *)
(* held before the call; with hasMore true it issues exactly one           *)
(* next-batch request and, answered 200, holds the next batch of the       *)
(* stream afterwards without having decoded it into the target; with       *)
(* hasMore false it issues no request.  When all requests are answered 200 *)
(* the k-th successful call yields Bk, and the calls after the last batch  *)
(* yield the last batch again.                                             *)
C6_FetchBatchOneAtATime ==
    /\ (last.op = "FetchBatch" /\ last.err = NoErr) =>
          /\ last.out = Holds(last.t.kind, last.pre.Result)
          /\ last.pre.More => last.reqs = 1
          /\ ~last.pre.More => last.reqs = 0 /\ cursor = last.pre
          /\ last.resp = Response(Status200) =>
                /\ last.pre.Result = all[HeldBatch - 1]
                /\ cursor.Result = all[HeldBatch]
                /\ cursor.More = (stream # <<>>)
    /\ (clean /\ last.op = "FetchBatch") =>
          \A j \in 1..Len(delivered) :
              LET b == IF j <= Len(all) THEN all[j] ELSE all[Len(all)]
              IN delivered[j] \in {Holds("Slice", b), Holds("Array", b)}

(* the second call on a two-batch stream yielded the second batch *)
C6_Witness ==
    /\ clean /\ last.op = "FetchBatch" /\ last.err = NoErr
    /\ Len(all) = 2 /\ all[1] # all[2] /\ all[2] # <<>>
    /\ last.t.kind = "Slice"
    /\ Len(delivered) = 2
    /\ delivered = all

(* C7: a FetchBatch, FetchNext or FetchOne call whose next-batch request   *)
(* fails (transport error, or a status other than 200) returns a failure:  *)
(* a non-nil error for FetchBatch and FetchNext, false for FetchOne.       *)
C7_FailureSurfaced ==
    ( /\ last.op \in {"FetchBatch", "FetchNext", "FetchOne"}
      /\ last.reqs > 0
      /\ (last.resp.err \/ last.resp.status # Status200) ) =>
        IF last.op = "FetchOne" THEN last.ret = "false"
        ELSE last.err # NoErr

NoRequestOps == {"Next"} \cup Accessors

(* C8: every call of Delete, FetchBatch, FetchOne, FetchNext, Updated or   *)
(* Exist issues at most one server request, whatever the answer; Next and  *)
(* the accessors issue none.                                               *)
C8_NoRetries ==
    /\ last.reqs <= 1
    /\ last.op \in NoRequestOps => last.reqs = 0

(* an Exist call whose one request met a transport error *)
C8_Witness ==
    /\ last.op = "Exist" /\ last.resp = TransportError
    /\ last.reqs = 1 /\ last.err = ErrTransport

(* id has exactly one "/" with a non-empty segment on either side *)
TwoNonEmptySegments(id) ==
    /\ Cardinality({i \in 1..Len(id) : id[i] = "/"}) = 1
    /\ id[1] # "/"
    /\ id[Len(id)] # "/"

(* the segment after the "/" *)
KeyOf(id) ==
    LET i == CHOOSE j \in 1..Len(id) : id[j] = "/"
    IN SubSeq(id, i + 1, Len(id))

(* C9: NewDocument(id) succeeds exactly when id splits on "/" into two     *)
(* non-empty segments, then with Id = id and Key = the second segment;     *)
(* for every other id it returns an error and no document.                 *)
C9_NewDocument ==
    last.op = "NewDocument" =>
        IF TwoNonEmptySegments(last.t)
        THEN last.err = NoErr /\ doc # Nil
             /\ doc.Id = last.t /\ doc.Key = KeyOf(last.t)
        ELSE last.err # NoErr /\ doc = Nil

(* C10: Exist with an empty id, and Updated with an empty id or an empty   *)
(* revision, return a precondition error, issue no request and leave the   *)
(* document's fields unchanged.                                            *)
C10_Preconditions ==
    ( \/ last.op = "Exist" /\ last.pre.Id = <<>>
      \/ last.op = "Updated" /\ (last.pre.Id = <<>> \/ last.pre.Rev = <<>>) ) =>
        /\ last.ret = "false"
        /\ last.err \in {ErrMustExist, ErrInvalidDb}
        /\ last.t = "db" => last.err = ErrMustExist
        /\ last.reqs = 0
        /\ doc = last.pre

(* Updated on a document with an id and no revision, with a database *)
C10_Witness ==
    /\ last.op = "Updated" /\ last.t = "db"
    /\ last.pre.Id # <<>> /\ last.pre.Rev = <<>>
    /\ last.err = ErrMustExist /\ last.reqs = 0

(* C11: with a database, an id and a revision, Updated returns (true, nil) *)
(* exactly when the response status is 404 or 412, (false, nil) for every  *)
(* other status, and (false, err) on a transport error err.                *)
C11_UpdatedStatus ==
    ( /\ last.op = "Updated" /\ last.t = "db"
      /\ last.pre.Id # <<>> /\ last.pre.Rev # <<>> ) =>
        /\ last.reqs = 1
        /\ IF last.resp.err
           THEN last.ret = "false" /\ last.err = ErrTransport
           ELSE /\ last.err = NoErr
                /\ last.ret = "true" <=> last.resp.status \in {Status404, Status412}
                /\ last.ret = "false" <=> last.resp.status \notin {Status404, Status412}

(* Updated answered 404 for a document with an id and a revision *)
C11_Witness ==
    /\ last.op = "Updated" /\ last.t = "db"
    /\ last.pre.Id # <<>> /\ last.pre.Rev # <<>>
    /\ last.resp = Response(Status404)
    /\ last.ret = "true" /\ last.err = NoErr

(* C12: with a database and an id, Exist returns (false, nil) exactly when *)
(* the response status is 404, (true, nil) for every other status, error   *)
(* statuses included, and (false, err) on a transport error err.           *)
C12_ExistStatus ==
    (last.op = "Exist" /\ last.t = "db" /\ last.pre.Id # <<>>) =>
        /\ last.reqs = 1
        /\ IF last.resp.err
           THEN last.ret = "false" /\ last.err = ErrTransport
           ELSE /\ last.err = NoErr
                /\ last.ret = "false" <=> last.resp.status = Status404
                /\ last.ret = "true" <=> last.resp.status # Status404

(* Exist answered with an error status for a document with an id *)
C12_Witness ==
    /\ last.op = "Exist" /\ last.t = "db" /\ last.pre.Id # <<>>
    /\ ~last.resp.err /\ last.resp.status \in OtherStatuses
    /\ last.ret = "true" /\ last.err = NoErr

(* C13: after any sequence of FetchNext, FetchBatch, Next and Delete calls *)
(* on a freshly populated cursor, 0 <= index <= len(batch): every fetch    *)
(* that replaces the batch leaves index within the new batch.              *)
C13_IndexWithinBatch ==
    /\ cursor.Index >= 0
    /\ cursor.Index <= Len(cursor.Result)

(* FetchBatch fetched a batch shorter than the position already reached *)
C13_Witness ==
    /\ last.op = "FetchBatch" /\ last.reqs = 1
    /\ last.resp = Response(Status200)
    /\ last.fault = "none"
    /\ cursor.Index = last.pre.Index
    /\ cursor.Index > Len(cursor.Result)

FetchOneWouldFetch(c) == c.Index > c.max /\ c.More

(* C15: when FetchOne finds the batch exhausted and hasMore true, it issues *)
(* one next-batch request; on status 200 it sets index to 0 and returns    *)
(* true without writing a row into the caller's target, and the first row  *)
(* of the new batch is what the following FetchOne call delivers; on a     *)
(* transport error or another status it returns false.                     *)
C15_FetchOneFetch ==
    (last.op = "FetchOne" /\ FetchOneWouldFetch(last.pre)) =>
        /\ last.reqs = 1
        /\ last.out = NoValue /\ last.dec = "none"
        /\ IF last.resp = Response(Status200)
           THEN /\ last.ret = "true"
                /\ cursor.Index = 0
                /\ cursor.Result # <<>> =>
                      LET R == FetchOne(cursor, "any", NoResponse, NextBody)
                      IN /\ R.ret = "true" /\ R.reqs = 0
                         /\ R.out = cursor.Result[1]
                         /\ R.c.Index = 1
           ELSE /\ last.ret = "false"
                /\ cursor.Index = last.pre.Index

(* FetchOne fetched a non-empty batch and delivered none of its rows *)
C15_Witness ==
    /\ last.op = "FetchOne" /\ FetchOneWouldFetch(last.pre)
    /\ last.reqs = 1 /\ last.resp = Response(Status200)
    /\ last.ret = "true" /\ last.out = NoValue
    /\ cursor.Index = 0 /\ cursor.Result # <<>>

(* C16: from any reachable cursor state, Next changes index by 0 or +1 and *)
(* only toward max: it never moves index past max, leaves index unchanged  *)
(* once index = max, returns true exactly on the call that brings index to *)
(* max, and modifies neither the batch, hasMore, id nor a caller's target. *)
C16_NextTowardMax ==
    last.op = "Next" =>
        /\ cursor.Index - last.pre.Index \in {0, 1}
        /\ cursor.Index <= cursor.max
        /\ last.pre.Index = last.pre.max => cursor.Index = last.pre.Index
        /\ last.ret = "true" <=>
              (cursor.Index = cursor.max /\ last.pre.Index # last.pre.max)
        /\ cursor.Result = last.pre.Result
        /\ cursor.More = last.pre.More
        /\ cursor.Id = last.pre.Id
        /\ cursor.max = last.pre.max
        /\ last.out = NoValue /\ last.reqs = 0

(* Next called with index already beyond max moved it further away *)
C16_Witness ==
    /\ last.op = "Next"
    /\ last.pre.Index > last.pre.max
    /\ cursor.Index = last.pre.Index + 1
    /\ last.ret = "false"

(* C17: once the server no longer holds the cursor, because a Delete       *)
(* returned (true, nil) or because it never held one, every further Delete *)
(* that the server answers (with 404) returns (false, nil), and a repeated *)
(* Delete finds the cursor as the previous one left it.                    *)
C17_DeleteIdempotent ==
    (cursor # Nil /\ ~srvHas) =>
        /\ ( /\ last.op = "Delete"
             /\ ~last.resp.err
             /\ last.resp # Response(Status202) ) =>
                 last.ret = "false" /\ last.err = NoErr
        /\ LET R == Delete(cursor, Response(Status404), NextBody)
           IN /\ R.ret = "false" /\ R.err = NoErr
              /\ R.c.Id = cursor.Id
              /\ Delete(R.c, Response(Status404), NextBody) = R

(* a Delete answered 404 after an earlier Delete had freed the cursor *)
C17_Witness ==
    /\ last.op = "Delete" /\ ncalls >= 2
    /\ cursor.Id # "" /\ ~srvHas
    /\ last.reqs = 1 /\ last.resp = Response(Status404)
    /\ last.ret = "false" /\ last.err = NoErr

(* C18: in every state reachable through FetchNext calls alone, whatever   *)
(* the server answers (a 200 carrying an empty batch included), the row    *)
(* access is within the batch and the call ends with a returned result,    *)
(* never with an out-of-range fault.                                       *)
C18_FetchNextInRange ==
    last.op = "FetchNext" =>
        /\ last.fault = "none"
        /\ last.ret \in {"true", "false"}

(* FetchNext fetched an empty batch with status 200 and read its row 0 *)
C18_Witness ==
    /\ last.op = "FetchNext"
    /\ last.reqs = 1 /\ last.resp = Response(Status200)
    /\ cursor.Result = <<>> /\ cursor.Index = 0
    /\ last.fault = "index out of range"

(* C19: when FetchNext returns (false, err) because the row at index could *)
(* not be decoded, the row is not consumed: index stays where the decode   *)
(* was attempted, so the next FetchNext attempts the same row; FetchOne    *)
(* advances index past such a row and reports only false.                  *)
C19_DecodeFailure ==
    /\ (last.op = "FetchNext" /\ last.dec = "fail") =>
          /\ last.ret = "false" /\ last.err = ErrDecode
          /\ last.out = NoValue
          /\ cursor.Index = IF last.reqs = 0 THEN last.pre.Index ELSE 0
          /\ last.reqs = 0 => cursor = last.pre
          /\ InRange(cursor)
          /\ LET R == FetchNext(cursor, last.t, NoResponse, NextBody)
                 A == FetchNext(cursor, "any", NoResponse, NextBody)
             IN /\ R.dec = "fail" /\ R.reqs = 0 /\ R.c = cursor
                /\ A.dec = "ok" /\ A.out = Row(cursor)
    /\ (last.op = "FetchOne" /\ last.dec = "fail") =>
          /\ last.ret = "false" /\ last.err = NoErr
          /\ last.out = NoValue
          /\ last.reqs = 0
          /\ cursor.Index = last.pre.Index + 1
          /\ cursor.Result = last.pre.Result

(* FetchNext, not its first call, failed to decode the row it stays on *)
C19_Witness ==
    /\ last.op = "FetchNext" /\ last.dec = "fail"
    /\ last.err = ErrDecode /\ last.reqs = 0
    /\ cursor.Index = last.pre.Index
    /\ ncalls >= 2

====
